---- MODULE Spec2Model ----
(***************************************************************************)
(* Model of the labeleer command-line tool: credential resolution from     *)
(* .env files or prompts, label-file resolution, and the retrieve /        *)
(* publish / create-label actions dispatched by main (Spec); and the       *)
(* project-setup functions around labeleer.json, which main does not call  *)
(* and which are run on their own (SetupSpec).                             *)
(*                                                                         *)
(* Representation of text:                                                 *)
(*   - a string is a sequence of atoms, "" is << >>;                       *)
(*   - a file name is the sequence of its dot-separated parts, so          *)
(*     ".env.local" is <<"", "env", "local">> and "labels.json" is         *)
(*     <<"labels", "json">> (this is name.split('.'));                     *)
(*   - a path is the sequence of its segments below process.cwd(), the     *)
(*     last one being the file name; undefined is << >>;                   *)
(*   - an .env line and a file content are sequences of lexical tokens.    *)
(***************************************************************************)
EXTENDS Integers, Sequences, FiniteSets, TLC

VARIABLES
    pc,                 \* position of the single control flow
    exitCode,           \* -1 while running, else the process exit status
    rootDir,            \* names in process.cwd(), as readdir returns them
    files,              \* label-file tree: path -> content
    initialFiles,       \* the tree when the run started
    dispatchFiles,      \* the tree when the action was selected
    dotEnvCandidates,   \* tryAcquireProjectConfig: filtered readdir result
    dotEnvPath,         \* tryAcquireProjectConfig: the chosen .env file
    envContent,         \* tryReadTokenFromEnv: lines of the file read
    parsedEnv,          \* files handed to tryReadTokenFromEnv, in order
    accessTokenCandidates,  \* tryReadTokenFromEnv locals
    projectIdCandidates,
    partialConfig,      \* main: result of tryAcquireProjectConfig
    labelCandidates,    \* tryAcquireLabelFile: glob result
    config,             \* main: the assembled ProjectConfig
    isNew,              \* main: labelFilePathWithFallback(...).isNew
    configComplete,     \* main: config has been assembled
    action,             \* main: the selected UserAction ("" before)
    format,             \* tryRetrieveLabels: export format
    inflight,           \* the request awaiting its response, or NoRequest
    response,           \* the last response received
    locales,            \* tryCreateLabel: fetched locale entries
    labelName,          \* tryCreateLabel: accepted label name
    localeTranslations, \* tryCreateLabel: locale -> entered value, in order
    cursor,             \* tryCreateLabel: index of the locale being asked
    round,              \* number of tryCreateLabel invocations so far
    prompts,            \* every prompt shown, in order
    answers,            \* every answer the user gave, in order
    requests,           \* every HTTP request sent, in order
    writes,             \* every file write performed, in order
    setup,              \* project setup: what createProjectSetup returned
    reloaded            \* project setup: what the following getProjectSetup
                        \* returned

vars == << pc, exitCode, rootDir, files, initialFiles, dispatchFiles,
           dotEnvCandidates, dotEnvPath,
           envContent, parsedEnv, accessTokenCandidates, projectIdCandidates,
           partialConfig, labelCandidates, config, isNew, configComplete,
           action, format, inflight, response, locales, labelName,
           localeTranslations, cursor, round, prompts, answers, requests,
           writes, setup, reloaded >>

(***************************************************************************)
(* Bounds                                                                  *)
(***************************************************************************)
\* how many times tryCreateLabel may be entered in one run
MaxCreateRounds == 2

(***************************************************************************)
(* Generic helpers                                                         *)
(***************************************************************************)
Range(s) == { s[i] : i \in 1..Len(s) }

Last(s) == s[Len(s)]

\* Array.prototype.filter on a sequence
RECURSIVE Filter(_, _)
Filter(s, keep) ==
    IF s = << >> THEN << >>
    ELSE IF Head(s) \in keep THEN << Head(s) >> \o Filter(Tail(s), keep)
    ELSE Filter(Tail(s), keep)

\* the empty string / undefined path
Empty == << >>

\* JavaScript truthiness of a string or of string | undefined
Truthy(s) == s # Empty

(***************************************************************************)
(* Credential resolver (project-settings)                                  *)
(***************************************************************************)
\* /\.env(\..*)?$/ tested on a file name: some ".env" is followed by the
\* end of the name or by a dot, i.e. a dot-part other than the first is "env"
envFileExpression(fileName) ==
    \E i \in 2..Len(fileName) : fileName[i] = "env"

\* the characters ' and " as lexical tokens of an .env line
Quotes == { "DQ", "SQ" }

\* tokens made of [a-zA-Z0-9_-] only
TokenSafe == { "LABELEER", "_ACCESS_", "_STAGING_", "_", "TOKEN", "PROJECT_ID",
               "tokA", "tokB", "idA", "idB" }

\* the ways /^LABELEER.*<key>=['"]?([a-zA-Z0-9_-]+)['"]$/ matches a line:
\* k is where <key> starts, q is 1 when the optional opening quote is taken
exprMatches(line, key) ==
    { m \in (2..Len(line)) \X {0, 1} :
        LET k == m[1]
            q == m[2]
            from == k + 2 + q
            to == Len(line) - 1
        IN  /\ line[1] = "LABELEER"
            /\ line[k] = key
            /\ k + 1 <= Len(line)
            /\ line[k + 1] = "="
            /\ q = 1 => (k + 2 <= Len(line) /\ line[k + 2] \in Quotes)
            /\ from <= to
            /\ \A i \in from..to : line[i] \in TokenSafe
            /\ line[Len(line)] \in Quotes }

\* line.match(expr) succeeded
exprTest(line, key) == exprMatches(line, key) # {}

\* line.match(expr)[1], the captured value
exprGroup1(line, key) ==
    LET m == CHOOSE x \in exprMatches(line, key) : TRUE
    IN  SubSeq(line, m[1] + 2 + m[2], Len(line) - 1)

accessTokenExpr == "TOKEN"

projectIdExpr == "PROJECT_ID"

\* the candidates pushed by the loop over content.split('\n')
RECURSIVE collectCandidates(_, _)
collectCandidates(lines, key) ==
    IF lines = << >> THEN << >>
    ELSE (IF exprTest(Head(lines), key)
          THEN << exprGroup1(Head(lines), key) >>
          ELSE << >>) \o collectCandidates(Tail(lines), key)

\* .env lines used as file contents
LineToken(key, open, val, close) ==
    << "LABELEER" >> \o key \o << "=" >> \o open \o << val >> \o close

\* LABELEER_PROJECT_ID="idA" / LABELEER_ACCESS_TOKEN="tokA", as in the README
EnvQuotedPair ==
    << LineToken(<< "_", "PROJECT_ID" >>, << "DQ" >>, "idA", << "DQ" >>),
       LineToken(<< "_ACCESS_", "TOKEN" >>, << "DQ" >>, "tokA", << "DQ" >>) >>

\* LABELEER_PROJECT_ID=idA / LABELEER_ACCESS_TOKEN=tokA
EnvUnquotedPair ==
    << LineToken(<< "_", "PROJECT_ID" >>, << >>, "idA", << >>),
       LineToken(<< "_ACCESS_", "TOKEN" >>, << >>, "tokA", << >>) >>

\* two access tokens and one project id
EnvTwoTokens ==
    << LineToken(<< "_ACCESS_", "TOKEN" >>, << "SQ" >>, "tokA", << "SQ" >>),
       LineToken(<< "_STAGING_", "TOKEN" >>, << "DQ" >>, "tokB", << "DQ" >>),
       << "#", " ", "LABELEER" >>,
       LineToken(<< "_", "PROJECT_ID" >>, << "DQ" >>, "idA", << "DQ" >>) >>

\* a token but no project id
EnvTokenOnly ==
    << LineToken(<< "_ACCESS_", "TOKEN" >>, << "DQ" >>, "tokA", << "DQ" >>) >>

\* two access tokens and no project id
EnvTwoTokensOnly ==
    << LineToken(<< "_ACCESS_", "TOKEN" >>, << "DQ" >>, "tokA", << "DQ" >>),
       LineToken(<< "_STAGING_", "TOKEN" >>, << "DQ" >>, "tokB", << "DQ" >>) >>

\* one access token and two project ids
EnvTwoIds ==
    << LineToken(<< "_ACCESS_", "TOKEN" >>, << "DQ" >>, "tokA", << "DQ" >>),
       LineToken(<< "_", "PROJECT_ID" >>, << "DQ" >>, "idA", << "DQ" >>),
       LineToken(<< "_STAGING_", "PROJECT_ID" >>, << "SQ" >>, "idB", << "SQ" >>) >>

EnvContents ==
    { EnvQuotedPair, EnvUnquotedPair, EnvTwoTokens, EnvTokenOnly,
      EnvTwoTokensOnly, EnvTwoIds }

\* directory listings of process.cwd()
DotEnv == << "", "env" >>

DotEnvLocal == << "", "env", "local" >>

FooEnv == << "foo", "env" >>

DotEnvrc == << "", "envrc" >>

PackageJson == << "package", "json" >>

RootListings ==
    { << PackageJson >>,
      << DotEnv, PackageJson >>,
      << DotEnv, DotEnvLocal >>,
      << DotEnvrc, FooEnv >> }

\* what the user can type at the password / project-id prompts
TypedTokens == { Empty, << "tokA" >> }

TypedProjectIds == { Empty, << "idA" >> }

NoConfig == [ defined |-> FALSE, projectId |-> Empty, accessToken |-> Empty ]

PartialConfig(id, token) ==
    [ defined |-> TRUE, projectId |-> id, accessToken |-> token ]

\* control is inside tryAcquireProjectConfig
CredentialPcs ==
    { "start", "selectEnv", "readEnv", "selectAccessToken", "selectProjectId",
      "password", "inputProjectId" }

(***************************************************************************)
(* File contents: JSON texts as token sequences                            *)
(***************************************************************************)
\* JSON values: a string, a number, an array, or an object whose members
\* kv are << key, value >> pairs in insertion order
JStr(x) == [ t |-> "str", s |-> x, kv |-> << >> ]

JNum(x) == [ t |-> "num", s |-> x, kv |-> << >> ]

JObj(members) == [ t |-> "obj", s |-> << >>, kv |-> members ]

\* the value of a property that is not there
JUndefined == [ t |-> "undefined", s |-> << >>, kv |-> << >> ]

\* the index keys "0", "1", ... of an array
IndexKeys == << << "0" >>, << "1" >>, << "2" >> >>

\* an array: its elements are the members under the index keys
JArr(items) ==
    [ t |-> "arr", s |-> << >>,
      kv |-> [ i \in 1..Len(items) |-> << IndexKeys[i], items[i] >> ] ]

\* JSON.stringify(value, null, 2); the tokens leave out the white space
RECURSIVE stringify(_)
RECURSIVE stringifyMembers(_)
RECURSIVE stringifyItems(_)
RECURSIVE definedMembers(_)
\* the members JSON.stringify writes: one whose value is undefined is left out
definedMembers(members) ==
    IF members = << >> THEN << >>
    ELSE (IF Head(members)[2].t = "undefined" THEN << >>
          ELSE << Head(members) >>) \o definedMembers(Tail(members))

stringifyMembers(members) ==
    IF members = << >> THEN << >>
    ELSE << "DQ" >> \o Head(members)[1] \o << "DQ", ":" >>
         \o stringify(Head(members)[2])
         \o (IF Tail(members) = << >> THEN << >> ELSE << "," >>)
         \o stringifyMembers(Tail(members))

stringifyItems(members) ==
    IF members = << >> THEN << >>
    ELSE stringify(Head(members)[2])
         \o (IF Tail(members) = << >> THEN << >> ELSE << "," >>)
         \o stringifyItems(Tail(members))

stringify(value) ==
    IF value.t = "str" THEN << "DQ" >> \o value.s \o << "DQ" >>
    ELSE IF value.t = "num" THEN value.s
    ELSE IF value.t = "arr"
    THEN << "[" >> \o stringifyItems(value.kv) \o << "]" >>
    ELSE << "{" >> \o stringifyMembers(definedMembers(value.kv)) \o << "}" >>

\* the tokens a JSON number is written with
NumberTokens == { "5" }

ParseError == [ ok |-> FALSE, v |-> JUndefined, next |-> 0 ]

Parsed(value, next) == [ ok |-> TRUE, v |-> value, next |-> next ]

\* the position of the first " at or after i, 0 when there is none
closingQuote(text, i) ==
    LET at == { j \in i..Len(text) : text[j] = "DQ" }
    IN  IF at = {} THEN 0 ELSE CHOOSE j \in at : \A k \in at : j <= k

\* obj[key], JUndefined when the object has no such member
getMember(members, key) ==
    LET at == { i \in 1..Len(members) : members[i][1] = key }
    IN  IF at = {} THEN JUndefined ELSE members[CHOOSE i \in at : TRUE][2]

\* a function value, such as the methods an object inherits
JFunction == [ t |-> "function", s |-> << >>, kv |-> << >> ]

\* property names every object inherits from Object.prototype
ObjectPrototypeNames == { << "constructor" >> }

\* obj[key] as JavaScript reads it: an own member, else an inherited one
getProperty(members, key) ==
    LET own == getMember(members, key)
    IN  IF own.t = "undefined" /\ key \in ObjectPrototypeNames
        THEN JFunction
        ELSE own

\* obj[key] = value: an existing member keeps its place, a new one is last
setMember(members, key, value) ==
    IF \E i \in 1..Len(members) : members[i][1] = key
    THEN [ i \in 1..Len(members) |->
             IF members[i][1] = key THEN << key, value >> ELSE members[i] ]
    ELSE Append(members, << key, value >>)

\* JSON.parse, by recursive descent over the tokens from position i
RECURSIVE parseValue(_, _)
RECURSIVE parseMembers(_, _, _)
RECURSIVE parseItems(_, _, _)
parseMembers(text, i, acc) ==
    IF i > Len(text) THEN ParseError
    ELSE IF text[i] = "}" /\ acc = << >> THEN Parsed(JObj(acc), i + 1)
    ELSE IF text[i] # "DQ" THEN ParseError
    ELSE LET q == closingQuote(text, i + 1)
         IN  IF q = 0 \/ q + 1 > Len(text) \/ text[q + 1] # ":"
             THEN ParseError
             ELSE LET key == SubSeq(text, i + 1, q - 1)
                      r == parseValue(text, q + 2)
                      acc2 == setMember(acc, key, r.v)
                  IN  IF ~r.ok \/ r.next > Len(text) THEN ParseError
                      ELSE IF text[r.next] = ","
                      THEN (IF r.next + 1 <= Len(text)
                               /\ text[r.next + 1] = "DQ"
                            THEN parseMembers(text, r.next + 1, acc2)
                            ELSE ParseError)
                      ELSE IF text[r.next] = "}"
                      THEN Parsed(JObj(acc2), r.next + 1)
                      ELSE ParseError

parseItems(text, i, acc) ==
    IF i > Len(text) THEN ParseError
    ELSE IF text[i] = "]" /\ acc = << >> THEN Parsed(JArr(acc), i + 1)
    ELSE LET r == parseValue(text, i)
             acc2 == Append(acc, r.v)
         IN  IF ~r.ok \/ r.next > Len(text) \/ Len(acc2) > Len(IndexKeys)
             THEN ParseError
             ELSE IF text[r.next] = ","
             THEN (IF r.next + 1 <= Len(text) /\ text[r.next + 1] # "]"
                   THEN parseItems(text, r.next + 1, acc2)
                   ELSE ParseError)
             ELSE IF text[r.next] = "]"
             THEN Parsed(JArr(acc2), r.next + 1)
             ELSE ParseError

parseValue(text, i) ==
    IF i > Len(text) THEN ParseError
    ELSE IF text[i] = "DQ"
    THEN LET q == closingQuote(text, i + 1)
         IN  IF q = 0 THEN ParseError
             ELSE Parsed(JStr(SubSeq(text, i + 1, q - 1)), q + 1)
    ELSE IF text[i] = "{" THEN parseMembers(text, i + 1, << >>)
    ELSE IF text[i] = "[" THEN parseItems(text, i + 1, << >>)
    ELSE IF text[i] \in NumberTokens THEN Parsed(JNum(<< text[i] >>), i + 1)
    ELSE ParseError

\* parseLabelFile(content): JSON.parse(content), which throws on a text
\* that is no JSON document
parseLabelFile(content) ==
    LET r == parseValue(content, 1)
    IN  IF r.ok /\ r.next = Len(content) + 1 THEN r ELSE ParseError

\* a label entry { "translations": { locale: value, ... } }
LabelEntry(translations) ==
    JObj(<< << << "translations" >>, JObj(translations) >> >>)

\* the content of a file just created by writeFile(path, '')
EmptyText == << >>

\* {}
JsonEmpty == stringify(JObj(<< >>))

\* {"greeting":{"translations":{"en":"Old","de":"Alt"}}}
JsonGreeting ==
    stringify(JObj(<< << << "greeting" >>,
                         LabelEntry(<< << << "en" >>, JStr(<< "Old" >>) >>,
                                       << << "de" >>, JStr(<< "Alt" >>) >> >>) >> >>))

\* {"greeting":{}}: valid JSON that is no LabelFile
JsonNoTranslations ==
    stringify(JObj(<< << << "greeting" >>, JObj(<< >>) >> >>))

\* {"count":5}: valid JSON that is no LabelFile
JsonNumber == stringify(JObj(<< << << "count" >>, JNum(<< "5" >>) >> >>))

\* a YAML document
YamlText == << "greeting", ":", "Hi" >>

\* bodies the export endpoint answers with
RemoteJson ==
    stringify(JObj(<< << << "welcome" >>,
                         LabelEntry(<< << << "en" >>,
                                          JStr(<< "Welcome" >>) >> >>) >> >>))

ResponseBodies == { RemoteJson, YamlText, EmptyText }

(***************************************************************************)
(* Label-file discovery and resolution (label-file-localization, files)    *)
(***************************************************************************)
SupportedFormat ==
    { "ANDROID_STRINGS", "APPLE_STRINGS", "JSON", "PO", "TS", "XLIFF", "YAML" }

\* the extension of a format, as the display names of getFileNameForFormat
\* spell it
getFileExtensionFromFormat(fmt) ==
    CASE fmt = "ANDROID_STRINGS" -> "xml"
      [] fmt = "APPLE_STRINGS" -> "strings"
      [] fmt = "JSON" -> "json"
      [] fmt = "PO" -> "po"
      [] fmt = "TS" -> "ts"
      [] fmt = "XLIFF" -> "xliff"
      [] fmt = "YAML" -> "yaml"

supportedFileFormats == << "json", "yaml", "xml" >>

globIgnorePatterns ==
    { << "node_modules" >>, << "dist" >>, << "build" >>, << "out" >>,
      << "coverage" >>, << "", "tmp" >>, << "", "gradle" >>,
      << "DerivedData" >>, << "Pods" >>, << "xcuserdata" >>, << "", "git" >>,
      << "", "idea" >>, << "reports" >>, << "__tests__" >> }

defaultLabelFileName == "labels"

labelFileNames == { "labels" }

\* an ignore pattern without a trailing /** excludes the one entry of that
\* relative path, not what lies below it
ignored(path) == Len(path) = 1 /\ path[1] \in globIgnorePatterns

\* `**/labels.{ext,...}`: any depth, but ** does not descend into
\* directories whose name starts with a dot
matchesLabelPattern(path) ==
    /\ Len(path) >= 1
    /\ Last(path) \in { << n, getFileExtensionFromFormat(f) >> :
                          n \in labelFileNames, f \in SupportedFormat }
    /\ \A i \in 1..(Len(path) - 1) : path[i][1] # ""

\* glob(pattern, { nodir, absolute, ignore }) over the files of the tree
glob(tree) ==
    { p \in DOMAIN tree : matchesLabelPattern(p) /\ ~ignored(p) }

\* supportedFileFormats.find(ext => labelFilePath.endsWith(`.${ext}`)),
\* "" for undefined
inferFileFormatFromFileName(labelFilePath) ==
    LET name == Last(labelFilePath)
        hits == { i \in 1..Len(supportedFileFormats) :
                    Len(name) >= 2 /\ Last(name) = supportedFileFormats[i] }
    IN  IF labelFilePath = Empty \/ hits = {} THEN ""
        ELSE supportedFileFormats[CHOOSE i \in hits : \A j \in hits : i <= j]

\* faulty variant: the extension is left out
newLabelFilePathBare(ext) == << << defaultLabelFileName >> >>

\* `${process.cwd()}/${defaultLabelFileName}.${format}`
newLabelFilePath(ext) == << << defaultLabelFileName, ext >> >>

\* paths of the trees below
RootLabelsJson == << << "labels", "json" >> >>

SrcLabelsYaml == << << "src" >>, << "labels", "yaml" >> >>

ModulesLabelsJson ==
    << << "node_modules" >>, << "pkg" >>, << "labels", "json" >> >>

GitLabelsJson == << << "", "git" >>, << "labels", "json" >> >>

RootLabelsTxt == << << "labels", "txt" >> >>

SrcStringsJson == << << "src" >>, << "strings", "json" >> >>

Tree1(p, c) == [ x \in { p } |-> c ]

Tree2(p, c, q, d) == [ x \in { p, q } |-> IF x = p THEN c ELSE d ]

\* the project trees a run can start from
InitialTrees ==
    { Tree2(RootLabelsTxt, YamlText, GitLabelsJson, JsonEmpty),
      Tree1(SrcStringsJson, JsonEmpty),
      Tree1(RootLabelsJson, JsonEmpty),
      Tree1(RootLabelsJson, JsonGreeting),
      Tree1(RootLabelsJson, EmptyText),
      Tree1(RootLabelsJson, JsonNoTranslations),
      Tree1(RootLabelsJson, JsonNumber),
      Tree1(SrcLabelsYaml, YamlText),
      Tree2(RootLabelsJson, JsonGreeting, SrcLabelsYaml, YamlText),
      Tree2(RootLabelsJson, JsonEmpty, ModulesLabelsJson, JsonGreeting) }

\* the projects a run can start in: every directory listing with one tree,
\* and every tree with the listing that holds no .env file
Projects ==
    (RootListings \X { Tree1(SrcLabelsYaml, YamlText) })
        \cup ({ << PackageJson >> } \X InitialTrees)

NoRequest == [ method |-> "", endpoint |-> "", token |-> Empty,
               project |-> Empty, query |-> "", body |-> Empty ]

Request(m, e, cfg, q, b) ==
    [ method |-> m, endpoint |-> e, token |-> cfg.accessToken,
      project |-> cfg.projectId, query |-> q, body |-> b ]

NoResponse == [ received |-> FALSE, ok |-> FALSE, data |-> Empty ]

Response(ok, data) == [ received |-> TRUE, ok |-> ok, data |-> data ]

NoProjectConfig ==
    [ projectId |-> Empty, accessToken |-> Empty, localFilePath |-> Empty ]

\* a Result<ProjectSetup>: Ok(value), Err(message), or none yet
NoResult ==
    [ called |-> FALSE, success |-> FALSE, thrown |-> FALSE,
      value |-> JUndefined ]

Ok(value) ==
    [ called |-> TRUE, success |-> TRUE, thrown |-> FALSE, value |-> value ]

Err ==
    [ called |-> TRUE, success |-> FALSE, thrown |-> FALSE,
      value |-> JUndefined ]

\* the call did not return: its promise rejected with the error thrown
Rejected ==
    [ called |-> TRUE, success |-> FALSE, thrown |-> TRUE,
      value |-> JUndefined ]

\* faulty variant: the data is appended to what the file held
writeFileAppending(tree, path, data) ==
    [ p \in (DOMAIN tree) \cup { path } |->
        IF p # path THEN tree[p]
        ELSE IF p \in DOMAIN tree THEN tree[p] \o data ELSE data ]

\* writeFile / writeFileSync: the file holds exactly the data written
writeFile(tree, path, data) ==
    [ p \in (DOMAIN tree) \cup { path } |-> IF p = path THEN data ELSE tree[p] ]

Init ==
    /\ pc = "start"
    /\ exitCode = -1
    /\ \E project \in Projects :
         /\ rootDir = project[1]
         /\ files = project[2]
         /\ initialFiles = project[2]
         /\ dispatchFiles = project[2]
    /\ dotEnvCandidates = << >>
    /\ dotEnvPath = Empty
    /\ envContent = << >>
    /\ parsedEnv = << >>
    /\ accessTokenCandidates = << >>
    /\ projectIdCandidates = << >>
    /\ partialConfig = NoConfig
    /\ labelCandidates = {}
    /\ config = NoProjectConfig
    /\ isNew = FALSE
    /\ configComplete = FALSE
    /\ action = ""
    /\ format = ""
    /\ inflight = NoRequest
    /\ response = NoResponse
    /\ locales = << >>
    /\ labelName = Empty
    /\ localeTranslations = << >>
    /\ cursor = 0
    /\ round = 0
    /\ prompts = << >>
    /\ answers = << >>
    /\ requests = << >>
    /\ writes = << >>
    /\ setup = NoResult
    /\ reloaded = NoResult

(***************************************************************************)
(* Control-flow helpers                                                    *)
(***************************************************************************)
credVars == << dotEnvCandidates, dotEnvPath, envContent, parsedEnv,
               accessTokenCandidates, projectIdCandidates, partialConfig >>

\* what no step of main changes: the directory listing, the tree the run
\* started from, and the results of the project-setup functions
envVars == << rootDir, initialFiles, setup, reloaded >>

labelVars == << labelCandidates, config, isNew, configComplete,
               dispatchFiles >>

createVars == << locales, labelName, localeTranslations, cursor, round >>

actionVars == << action, format, inflight, response, createVars >>

\* control waits at one of these prompts for the user's answer
PromptPcs ==
    { "selectEnv", "selectAccessToken", "selectProjectId", "password",
      "inputProjectId", "selectLabelFile", "confirmCreate",
      "selectCreateFormat", "selectAction", "selectFetchFormat",
      "inputLabelName", "inputTranslation", "selectAnother" }

\* the control flow reaches the prompt `kind` and waits there
Ask(kind) ==
    /\ pc' = kind
    /\ prompts' = Append(prompts, kind)
    /\ exitCode' = exitCode

\* the user answers the prompt control waits at
Answer(value) ==
    answers' = Append(answers, [ prompt |-> pc, value |-> value ])

\* the control flow moves on to the await point `at` without prompting
Goto(at) ==
    /\ pc' = at
    /\ prompts' = prompts
    /\ exitCode' = exitCode

\* process.exit(code)
Exit(code) ==
    /\ pc' = "exited"
    /\ exitCode' = code
    /\ prompts' = prompts

\* faulty variant: main loops back to the action select
ReturnToSelect ==
    /\ pc' = "selectAction"
    /\ prompts' = Append(prompts, "selectAction")
    /\ exitCode' = exitCode

\* main() resolves: nothing is left to run and node ends with status 0
Return ==
    /\ pc' = "returned"
    /\ exitCode' = 0
    /\ prompts' = prompts

(***************************************************************************)
(* tryAcquireProjectConfig and its callees                                 *)
(***************************************************************************)
\* faulty variant: the resolver asks for the env file again
reselectEnvFile == Ask("selectEnv")

\* inquireProjectConfig: the password prompt comes first
inquireProjectConfig == Ask("password")

\* faulty variant: the first candidate is taken whenever there is one
deduceFirstCandidate(candidates) == Len(candidates) >= 1

\* tryDeduceEnvFilePath returns without a prompt for exactly one candidate
deduceWithoutPrompt(candidates) == Len(candidates) = 1

\* main, after tryAcquireProjectConfig returned `cfg`
afterProjectConfig(cfg) ==
    IF ~cfg.defined THEN Exit(0) ELSE Goto("glob")

\* tryAcquireProjectConfig, once dotEnvPath is known
afterDeduce(path) ==
    IF ~Truthy(path) THEN inquireProjectConfig ELSE Goto("readEnv")

tryAcquireProjectConfig ==
    /\ pc = "start"
    /\ LET candidates ==
            Filter(rootDir, { n \in Range(rootDir) : envFileExpression(n) })
       IN  /\ dotEnvCandidates' = candidates
           /\ IF Len(candidates) = 0
              THEN inquireProjectConfig /\ dotEnvPath' = dotEnvPath
              ELSE IF deduceWithoutPrompt(candidates)
              THEN dotEnvPath' = candidates[1] /\ afterDeduce(candidates[1])
              ELSE Ask("selectEnv") /\ dotEnvPath' = dotEnvPath
    /\ UNCHANGED << envVars, files, envContent, parsedEnv,
                    accessTokenCandidates, projectIdCandidates, partialConfig,
                    labelVars, actionVars, answers, requests, writes >>

\* the user answers tryDeduceEnvFilePath's select
answerSelectEnv ==
    /\ pc = "selectEnv"
    /\ \E fileName \in Range(dotEnvCandidates) :
         /\ dotEnvPath' = fileName
         /\ Answer(fileName)
         /\ afterDeduce(fileName)
    /\ UNCHANGED << envVars, files, dotEnvCandidates, envContent, parsedEnv,
                    accessTokenCandidates, projectIdCandidates, partialConfig,
                    labelVars, actionVars, requests, writes >>

\* faulty variant: the first candidate of each list is taken
returnsFirstOfEach(tokens, ids) == TRUE

\* accessTokenCandidates.length === 1 && projectIdCandidates.length === 1
returnsDirectly(tokens, ids) == Len(tokens) = 1 /\ Len(ids) = 1

\* the choice names a select of the credential resolver renders on the
\* terminal: choices: candidates.map(x => ({ name: x, value: x }))
selectChoices(kind) ==
    CASE kind = "selectEnv" -> Range(dotEnvCandidates)
      [] kind = "selectAccessToken" -> Range(accessTokenCandidates)
      [] kind = "selectProjectId" -> Range(projectIdCandidates)
      [] OTHER -> {}

\* tryReadTokenFromEnv up to its return or its first select
tryReadTokenFromEnv ==
    /\ pc = "readEnv"
    /\ \E content \in EnvContents :
         LET tokens == collectCandidates(content, accessTokenExpr)
             ids == collectCandidates(content, projectIdExpr)
         IN  /\ envContent' = content
             /\ parsedEnv' = Append(parsedEnv, dotEnvPath)
             /\ accessTokenCandidates' = tokens
             /\ projectIdCandidates' = ids
             /\ IF Len(tokens) = 0 \/ Len(ids) = 0
                THEN inquireProjectConfig /\ partialConfig' = partialConfig
                ELSE IF returnsDirectly(tokens, ids)
                THEN /\ partialConfig' = PartialConfig(ids[1], tokens[1])
                     /\ afterProjectConfig(PartialConfig(ids[1], tokens[1]))
                ELSE Ask("selectAccessToken") /\ partialConfig' = partialConfig
    /\ UNCHANGED << envVars, files, dotEnvCandidates, dotEnvPath, labelVars,
                    actionVars, answers, requests, writes >>

answerSelectAccessToken ==
    /\ pc = "selectAccessToken"
    /\ \E token \in Range(accessTokenCandidates) :
         /\ partialConfig' = [ NoConfig EXCEPT !.accessToken = token ]
         /\ Answer(token)
    /\ Ask("selectProjectId")
    /\ UNCHANGED << envVars, files, dotEnvCandidates, dotEnvPath, envContent,
                    parsedEnv, accessTokenCandidates, projectIdCandidates,
                    labelVars, actionVars, requests, writes >>

answerSelectProjectId ==
    /\ pc = "selectProjectId"
    /\ \E id \in Range(projectIdCandidates) :
         LET cfg == PartialConfig(id, partialConfig.accessToken)
         IN  partialConfig' = cfg /\ Answer(id) /\ afterProjectConfig(cfg)
    /\ UNCHANGED << envVars, files, dotEnvCandidates, dotEnvPath, envContent,
                    parsedEnv, accessTokenCandidates, projectIdCandidates,
                    labelVars, actionVars, requests, writes >>

\* the user answers inquireProjectConfig's password prompt
answerPassword ==
    /\ pc = "password"
    /\ \E token \in TypedTokens :
         /\ partialConfig' = [ NoConfig EXCEPT !.accessToken = token ]
         /\ Answer(token)
    /\ Ask("inputProjectId")
    /\ UNCHANGED << envVars, files, dotEnvCandidates, dotEnvPath, envContent,
                    parsedEnv, accessTokenCandidates, projectIdCandidates,
                    labelVars, actionVars, requests, writes >>

\* the user answers inquireProjectConfig's project-id prompt
answerInputProjectId ==
    /\ pc = "inputProjectId"
    /\ \E id \in TypedProjectIds :
         LET cfg == PartialConfig(id, partialConfig.accessToken)
         IN  partialConfig' = cfg /\ Answer(id) /\ afterProjectConfig(cfg)
    /\ UNCHANGED << envVars, files, dotEnvCandidates, dotEnvPath, envContent,
                    parsedEnv, accessTokenCandidates, projectIdCandidates,
                    labelVars, actionVars, requests, writes >>

(***************************************************************************)
(* tryAcquireLabelFile and labelFilePathWithFallback                       *)
(***************************************************************************)
\* main: config = { ...partialConfig, localFilePath: path }, then the
\* action select is shown
assembleConfig(path, new) ==
    /\ config' = [ projectId |-> partialConfig.projectId,
                   accessToken |-> partialConfig.accessToken,
                   localFilePath |-> path ]
    /\ isNew' = new
    /\ configComplete' = TRUE
    /\ Ask("selectAction")

\* labelFilePathWithFallback(initialPath) up to its return or first select
labelFilePathWithFallback(initialPath) ==
    IF Truthy(initialPath)
    THEN assembleConfig(initialPath, FALSE)
    ELSE Ask("confirmCreate") /\ UNCHANGED << config, isNew, configComplete >>

\* variables neither function of the label-file resolution touches
resolveFrame ==
    UNCHANGED << envVars, files, credVars, dispatchFiles, actionVars,
                 requests, writes >>

\* faulty variant: the first file is taken however many were found
acquireFirstFound(found) == TRUE

\* tryAcquireLabelFile selects only among two or more files
acquireWithoutPrompt(found) == Cardinality(found) = 0 \/ Cardinality(found) = 1

\* files?.[0]
firstOf(found) == IF found = {} THEN Empty ELSE CHOOSE p \in found : TRUE

tryAcquireLabelFile ==
    /\ pc = "glob"
    /\ LET found == glob(files)
       IN  /\ labelCandidates' = found
           /\ IF acquireWithoutPrompt(found)
              THEN labelFilePathWithFallback(firstOf(found))
              ELSE Ask("selectLabelFile")
                   /\ UNCHANGED << config, isNew, configComplete >>
    /\ answers' = answers
    /\ resolveFrame

answerSelectLabelFile ==
    /\ pc = "selectLabelFile"
    /\ \E filePath \in labelCandidates :
         Answer(filePath) /\ labelFilePathWithFallback(filePath)
    /\ labelCandidates' = labelCandidates
    /\ resolveFrame

\* faulty variant: a "No" is not honoured
declinesNever(shouldCreate) == FALSE

\* if (!shouldCreate) { exitMessage(); process.exit(0); }
declines(shouldCreate) == ~shouldCreate

\* 'Would you like to create and import a new labels file?'
answerConfirmCreate ==
    /\ pc = "confirmCreate"
    /\ \E shouldCreate \in BOOLEAN :
         /\ Answer(shouldCreate)
         /\ IF declines(shouldCreate) THEN Exit(0) ELSE Ask("selectCreateFormat")
    /\ UNCHANGED << labelCandidates, config, isNew, configComplete >>
    /\ resolveFrame

\* 'Select the label file format to create:', then writeFile(path, '')
answerSelectCreateFormat ==
    /\ pc = "selectCreateFormat"
    /\ \E fmt \in SupportedFormat :
         LET path == newLabelFilePath(getFileExtensionFromFormat(fmt))
         IN  /\ files' = writeFile(files, path, EmptyText)
             /\ writes' = Append(writes, [ path |-> path, data |-> EmptyText ])
             /\ Answer(fmt)
             /\ assembleConfig(path, TRUE)
    /\ UNCHANGED << envVars, credVars, labelCandidates, dispatchFiles,
                    actionVars, requests >>

(***************************************************************************)
(* main: the action select, tryRetrieveLabels, tryPublishLocalLabels       *)
(***************************************************************************)
UserAction == { "retrieve", "publish", "create", "cancel" }

\* faulty variant: Publish is offered for a new file too
publishAlwaysOffered(new) == FALSE

\* { name: 'Publish', value: UserAction.PUBLISH, disabled: isNew }
publishDisabled(new) == new

\* the choices of the action select that can be picked
enabledChoices(new) ==
    { a \in UserAction : a = "publish" => ~publishDisabled(new) }

\* fetch(...) is called: the request is sent and awaited at `at`
Send(req, at) ==
    /\ inflight' = req
    /\ requests' = Append(requests, req)
    /\ Goto(at)

\* tryRetrieveLabels from the fetch on
sendExport(fmt) ==
    /\ format' = fmt
    /\ Send(Request("GET", "translations/export", config, fmt, Empty),
            "awaitExport")

\* tryRetrieveLabels up to the format select or the fetch
tryRetrieveLabels ==
    LET inferred == inferFileFormatFromFileName(config.localFilePath)
    IN  IF inferred = ""
        THEN Ask("selectFetchFormat") /\ UNCHANGED << format, inflight, requests >>
        ELSE sendExport(inferred)

\* faulty variant: every inferred format is published
publishAnyFormat(fileType) == TRUE

\* the local file's format allows publishing
publishSupported(fileType) == fileType = "json"

\* `{"entries":${localFileContent}}`
publishBody(localFileContent) ==
    << "{", "DQ", "entries", "DQ", ":" >> \o localFileContent \o << "}" >>

\* tryPublishLocalLabels up to its return or the fetch
tryPublishLocalLabels ==
    LET localFileContent == files[config.localFilePath]
        fileType == inferFileFormatFromFileName(config.localFilePath)
    IN  IF ~Truthy(localFileContent) \/ fileType = ""
           \/ ~publishSupported(fileType)
        THEN Return /\ UNCHANGED << inflight, requests >>
        ELSE Send(Request("POST", "translations", config, "",
                          publishBody(localFileContent)), "awaitPublish")

\* tryFetchLanguages: GET /project/{id}/locale
tryFetchLanguages ==
    Send(Request("GET", "locale", config, "", Empty), "awaitLocales")

\* the user answers 'What would you like to do?'
answerSelectAction ==
    /\ pc = "selectAction"
    /\ \E a \in enabledChoices(isNew) :
         /\ action' = a
         /\ Answer(a)
         /\ CASE a = "retrieve" -> tryRetrieveLabels /\ round' = round
              [] a = "publish" -> tryPublishLocalLabels /\ UNCHANGED << format, round >>
              [] a = "create" -> tryFetchLanguages /\ round' = round + 1
                                 /\ format' = format
              [] a = "cancel" -> Return /\ UNCHANGED << format, inflight,
                                                       requests, round >>
    /\ dispatchFiles' = files
    /\ UNCHANGED << envVars, files, credVars, labelCandidates, config, isNew,
                    configComplete, response, locales, labelName,
                    localeTranslations, cursor, writes >>

\* the user answers 'Select the label file format to fetch:'
answerSelectFetchFormat ==
    /\ pc = "selectFetchFormat"
    /\ \E fmt \in Range(supportedFileFormats) :
         /\ Answer(fmt)
         /\ IF fmt = ""
            THEN Exit(1) /\ UNCHANGED << format, inflight, requests >>
            ELSE sendExport(fmt)
    /\ UNCHANGED << envVars, files, credVars, labelVars, action, response,
                    createVars, writes >>

\* faulty variant: the body is written whatever the status
retrieveWritesAnyStatus(ok) == TRUE

\* tryRetrieveLabels after the response: response.ok decides
retrieveWrites(ok) == ok

\* the export endpoint answers
exportResponse ==
    /\ pc = "awaitExport"
    /\ inflight' = NoRequest
    /\ \E ok \in BOOLEAN, data \in ResponseBodies :
         /\ response' = Response(ok, data)
         /\ IF ~retrieveWrites(ok)
            THEN Exit(1) /\ UNCHANGED << files, writes >>
            ELSE /\ files' = writeFile(files, config.localFilePath, data)
                 /\ writes' = Append(writes, [ path |-> config.localFilePath,
                                               data |-> data ])
                 /\ Return
    /\ UNCHANGED << envVars, credVars, labelVars, action, format, createVars,
                    answers, requests >>

\* faulty variant: a failed synchronization ends the process, as a failed
\* retrieve does
publishEndsFatally(ok) == IF ok THEN Return ELSE Exit(1)

\* tryPublishLocalLabels after the response: the failure branch logs the
\* status text and the body and returns, the success branch returns
publishEnds(ok) == Return

\* the translations endpoint answers the POST
publishResponse ==
    /\ pc = "awaitPublish"
    /\ inflight' = NoRequest
    /\ \E ok \in BOOLEAN : response' = Response(ok, Empty) /\ publishEnds(ok)
    /\ UNCHANGED << envVars, files, credVars, labelVars, action, format,
                    createVars, answers, requests, writes >>

\* faulty variant: every error caught is reported as a failure
catchStatusAlwaysOne(errorName) == 1

\* main().catch: the exit status for the error that reached it
catchStatus(errorName) == IF errorName = "ExitPromptError" THEN 0 ELSE 1

\* fetch() rejects, or the body cannot be read: the error reaches
\* main().catch, which exits with status 1
requestFails ==
    /\ pc \in { "awaitExport", "awaitPublish", "awaitLocales" }
    /\ inflight' = NoRequest
    /\ Exit(catchStatus("Error"))
    /\ UNCHANGED << envVars, files, credVars, labelVars, action, format,
                    response, createVars, answers, requests, writes >>

\* the user interrupts a prompt: ExitPromptError reaches main().catch
interruptPrompt ==
    /\ pc \in PromptPcs
    /\ Exit(catchStatus("ExitPromptError"))
    /\ UNCHANGED << envVars, files, credVars, labelVars, actionVars,
                    answers, requests, writes >>

(***************************************************************************)
(* tryCreateLabel (create-labels)                                          *)
(***************************************************************************)
WhiteSpace == { " " }

\* atoms that are not made of [a-zA-Z0-9._-]
Disallowed == WhiteSpace \cup { "!" }

\* label.replace(/\s+/, '.'): the first run of white space only
replaceFirstWhiteSpace(label) ==
    LET sp == { i \in 1..Len(label) : label[i] \in WhiteSpace }
    IN  IF sp = {} THEN label
        ELSE LET i == CHOOSE x \in sp : \A y \in sp : x <= y
                 run == { k \in i..Len(label) :
                            \A m \in i..k : label[m] \in WhiteSpace }
                 j == CHOOSE x \in run : \A y \in run : y <= x
             IN  SubSeq(label, 1, i - 1) \o << "." >>
                 \o SubSeq(label, j + 1, Len(label))

\* label.replace(/[^a-zA-Z0-9._-]+/g, '-'): every run of other characters
RECURSIVE replaceDisallowed(_)
RECURSIVE dropDisallowed(_)
dropDisallowed(label) ==
    IF label # << >> /\ Head(label) \in Disallowed
    THEN dropDisallowed(Tail(label))
    ELSE label

replaceDisallowed(label) ==
    IF label = << >> THEN << >>
    ELSE IF Head(label) \in Disallowed
    THEN << "-" >> \o replaceDisallowed(dropDisallowed(label))
    ELSE << Head(label) >> \o replaceDisallowed(Tail(label))

\* the validate callback of the label-name input
processLabelName(label) ==
    replaceDisallowed(replaceFirstWhiteSpace(label)) = label

\* what the user can type at the label-name prompt
TypedLabelNames ==
    { << "greeting" >>, << "foo", ".", "bar" >>, << "foo", " ", "bar" >>,
      << "bad", "!" >>, << "constructor" >>, Empty }

\* what the user can type at a translation prompt
TypedValues == { Empty, << "Hi" >> }

LocaleEntry(l, ref) == [ locale |-> l, isReference |-> ref ]

\* what makeRequest resolves to for GET /project/{id}/locale: undefined
\* (ok = FALSE) when the decoder rejects the body, else the decoded data
LocaleResponses ==
    { [ ok |-> FALSE, data |-> << >> ],
      [ ok |-> TRUE, data |-> << >> ],
      [ ok |-> TRUE, data |-> << LocaleEntry(<< "fr" >>, FALSE) >> ],
      [ ok |-> TRUE, data |-> << LocaleEntry(<< "en" >>, TRUE),
                                 LocaleEntry(<< "fr" >>, FALSE) >> ] }

\* faulty variant: no translation prompt is required
requiredNever(localeEntry) == FALSE

\* the input prompt's `required` option for a locale entry
required(localeEntry) == localeEntry.isReference

\* an input prompt accepts the typed value
inputAccepts(req, value) == req => Truthy(value)

\* Map.prototype.set on the entries of a Map, in insertion order
mapSet(entries, key, value) == setMember(entries, key, value)

\* labelFile[labelName].translations[locale] = translation, for every entry
RECURSIVE assignTranslations(_, _)
assignTranslations(members, entries) ==
    IF entries = << >> THEN members
    ELSE assignTranslations(
             setMember(members, Head(entries)[1], JStr(Head(entries)[2])),
             Tail(entries))

Thrown == [ ok |-> FALSE, v |-> JUndefined ]

\* faulty variant: the label's entry is always started afresh
upsertReplacing(labelFile, name, entries) ==
    IF labelFile.t # "obj" THEN Thrown
    ELSE [ ok |-> TRUE,
           v |-> JObj(setMember(labelFile.kv, name,
                     LabelEntry(assignTranslations(<< >>, entries)))) ]

\* lines 57-60 of tryCreateLabel on the parsed label file; a TypeError is
\* thrown when a property of undefined or of a primitive is assigned
upsertLabel(labelFile, name, entries) ==
    IF labelFile.t # "obj" THEN Thrown
    ELSE LET found == getProperty(labelFile.kv, name)
             entry == IF found.t = "undefined" THEN LabelEntry(<< >>)
                      ELSE found
             tr == IF entry.t = "obj"
                   THEN getMember(entry.kv, << "translations" >>)
                   ELSE JUndefined
         IN  IF tr.t # "obj" THEN Thrown
             ELSE [ ok |-> TRUE,
                    v |-> JObj(setMember(labelFile.kv, name,
                              JObj(setMember(entry.kv, << "translations" >>,
                                  JObj(assignTranslations(tr.kv, entries)))))) ]

\* tryFetchLanguages after the response, then the label-name prompt
localesResponse ==
    /\ pc = "awaitLocales"
    /\ inflight' = NoRequest
    /\ \E res \in LocaleResponses :
         /\ response' = Response(res.ok, Empty)
         /\ IF ~res.ok
            THEN Exit(1) /\ locales' = locales
            ELSE locales' = res.data /\ Ask("inputLabelName")
    /\ UNCHANGED << envVars, files, credVars, labelVars, action, format,
                    labelName, localeTranslations, cursor, round, answers,
                    requests, writes >>

\* the user submits a label name the validate callback accepts
answerInputLabelName ==
    /\ pc = "inputLabelName"
    /\ \E name \in TypedLabelNames :
         /\ processLabelName(name)
         /\ labelName' = name
         /\ Answer(name)
    /\ localeTranslations' = << >>
    /\ IF Len(locales) = 0
       THEN Return /\ cursor' = cursor
       ELSE Ask("inputTranslation") /\ cursor' = 1
    /\ UNCHANGED << envVars, files, credVars, labelVars, action, format,
                    inflight, response, locales, round, requests, writes >>

\* tryCreateLabel after the loop over the locales
saveLabel(entries) ==
    IF Len(entries) = 0
    THEN Return /\ UNCHANGED << files, writes >>
    ELSE LET currentLabelFile == files[config.localFilePath]
             parsed == parseLabelFile(currentLabelFile)
             updated == upsertLabel(parsed.v, labelName, entries)
         IN  IF ~parsed.ok \/ ~updated.ok
             THEN Exit(1) /\ UNCHANGED << files, writes >>
             ELSE LET updatedContent == stringify(updated.v)
                  IN  /\ files' = writeFile(files, config.localFilePath,
                                            updatedContent)
                      /\ writes' = Append(writes,
                                     [ path |-> config.localFilePath,
                                       data |-> updatedContent ])
                      /\ Ask("selectAnother")

\* the user submits the value for locales[cursor]
answerInputTranslation ==
    /\ pc = "inputTranslation"
    /\ \E labelValue \in TypedValues :
         /\ inputAccepts(required(locales[cursor]), labelValue)
         /\ Answer(labelValue)
         /\ LET entries == mapSet(localeTranslations,
                                  locales[cursor].locale, labelValue)
            IN  /\ localeTranslations' = entries
                /\ IF cursor < Len(locales)
                   THEN /\ Ask("inputTranslation")
                        /\ cursor' = cursor + 1
                        /\ UNCHANGED << files, writes >>
                   ELSE saveLabel(entries) /\ cursor' = cursor
    /\ UNCHANGED << envVars, credVars, labelVars, action, format, inflight,
                    response, locales, labelName, round, requests >>

\* the user answers 'Would you like to create another one?'
answerSelectAnother ==
    /\ pc = "selectAnother"
    /\ \E another \in BOOLEAN :
         /\ Answer(another)
         /\ IF ~another
            THEN Return /\ UNCHANGED << inflight, requests, round >>
            ELSE /\ round < MaxCreateRounds
                 /\ round' = round + 1
                 /\ tryFetchLanguages
    /\ UNCHANGED << envVars, files, credVars, labelVars, action, format,
                    response, locales, labelName, localeTranslations, cursor,
                    writes >>

Next ==
    \/ tryAcquireProjectConfig
    \/ answerSelectEnv
    \/ tryReadTokenFromEnv
    \/ answerSelectAccessToken
    \/ answerSelectProjectId
    \/ answerPassword
    \/ answerInputProjectId
    \/ tryAcquireLabelFile
    \/ answerSelectLabelFile
    \/ answerConfirmCreate
    \/ answerSelectCreateFormat
    \/ answerSelectAction
    \/ answerSelectFetchFormat
    \/ exportResponse
    \/ publishResponse
    \/ requestFails
    \/ localesResponse
    \/ answerInputLabelName
    \/ answerInputTranslation
    \/ answerSelectAnother
    \/ interruptPrompt

Spec == Init /\ [][Next]_vars

(***************************************************************************)
(* Project setup: labeleer.json (getProjectSetup, createProjectSetup,      *)
(* tryInquireProjectSetup)                                                 *)
(***************************************************************************)
\* the members of SupportedFormat the switch of
\* tryLocaleFilePathsForVariant goes through
ProjectVariants ==
    { "JSON", "YAML", "XCSTRINGS", "TS", "XLIFF", "PO", "APPLE_STRINGS",
      "ANDROID_STRINGS" }

\* the extensions in `**/labels.{ext,...}` for the single-file formats
getFileExtensionsFromFormat(fmt) ==
    CASE fmt = "JSON" -> { "json" }
      [] fmt = "YAML" -> { "yaml", "yml" }
      [] fmt = "XCSTRINGS" -> { "xcstrings" }
      [] OTHER -> {}

\* the canonical locale identifiers
Locales == { << "en_US" >>, << "fr_FR" >> }

isISO639_1LanguageCode(val) == val \in { << "en" >>, << "fr" >> }

iso639_1ToLocale(val) ==
    IF val = << "en" >> THEN << "en_US" >> ELSE << "fr_FR" >>

isLocale(val) == val \in Locales

isBCP47Locale(val) == val \in { << "en-US" >>, << "fr-FR" >> }

toPOSIX(val) == IF val = << "en-US" >> THEN << "en_US" >> ELSE << "fr_FR" >>

\* LocaleDecoder.safeParse(val): the transform, then refine(val => !!val)
LocaleDecoder(val) ==
    LET out == IF isISO639_1LanguageCode(val) THEN iso639_1ToLocale(val)
               ELSE IF isLocale(val) THEN val
               ELSE IF isBCP47Locale(val) THEN toPOSIX(val)
               ELSE Empty
    IN  [ success |-> Truthy(out), data |-> out ]

\* process.cwd() as a string
CwdString == << "/", "work", "/", "project" >>

\* the parts of a name joined by dots, as a string
RECURSIVE joinDots(_)
joinDots(parts) ==
    IF parts = << >> THEN << >>
    ELSE << Head(parts) >>
         \o (IF Tail(parts) = << >> THEN << >> ELSE << "." >>)
         \o joinDots(Tail(parts))

\* the absolute path string glob returns for a path of the tree
RECURSIVE joinSegments(_)
joinSegments(path) ==
    IF path = << >> THEN << >>
    ELSE << "/" >> \o joinDots(Head(path)) \o joinSegments(Tail(path))

absolute(path) == CwdString \o joinSegments(path)

\* join(process.cwd(), PROJECT_FILE_NAME), as a path of the tree
getProjectConfigFilePath == << << "labeleer", "json" >> >>

hasProjectSetupFile(tree) == getProjectConfigFilePath \in DOMAIN tree

\* glob(`**/<name>`, getGlobConfig()) for the file names `names`
globNamed(tree, names) ==
    { p \in DOMAIN tree :
        /\ Last(p) \in names
        /\ \A i \in 1..(Len(p) - 1) : p[i][1] # ""
        /\ ~ignored(p) }

\* a ProjectPathEntry; path is a string value or undefined
PathEntry(locale, path) ==
    JObj(<< << << "locale" >>, JStr(locale) >>, << << "path" >>, path >> >>)

\* a ProjectSetup
ProjectSetup(variant, paths) ==
    JObj(<< << << "variant" >>, JStr(<< variant >>) >>,
            << << "paths" >>, JArr(paths) >> >>)

\* a set of paths in the order the glob returned them
RECURSIVE inGlobOrder(_)
inGlobOrder(found) ==
    IF found = {} THEN << >>
    ELSE LET p == CHOOSE x \in found : TRUE
         IN  << p >> \o inGlobOrder(found \ { p })

\* tryFindSingularPath: `const [firstResult] = await glob(...)`; the results
\* it can return, one for each file the glob may list first, and the entry
\* without a path when the glob finds nothing
tryFindSingularPath(fmt, tree) ==
    LET found == globNamed(tree, { << "labels", e >> :
                                     e \in getFileExtensionsFromFormat(fmt) })
    IN  IF found = {} THEN { PathEntry(<< "*" >>, JUndefined) }
        ELSE { PathEntry(<< "*" >>, JStr(absolute(p))) : p \in found }

\* tryResolveTs: every labels.ts, for all locales
tryResolveTs(tree) ==
    LET results == inGlobOrder(globNamed(tree, { << "labels", "ts" >> }))
    IN  [ i \in 1..Len(results) |->
            PathEntry(<< "*" >>, JStr(absolute(results[i]))) ]

\* segment.replace('.lproj', ''): the first ".lproj" is taken out
dropLproj(segment) ==
    LET at == { i \in 2..Len(segment) : segment[i] = "lproj" }
        i == CHOOSE x \in at : \A y \in at : x <= y
    IN  joinDots(SubSeq(segment, 1, i - 1) \o SubSeq(segment, i + 1, Len(segment)))

\* tryResolveAppleStrings: the entry of one Localizable.strings, or none
appleEntry(path) ==
    LET at == { i \in 1..Len(path) :
                  Len(path[i]) >= 2 /\ Last(path[i]) = "lproj" }
    IN  IF at = {} THEN << >>
        ELSE LET segment == path[CHOOSE x \in at : \A y \in at : x <= y]
                 result == LocaleDecoder(dropLproj(segment))
             IN  IF ~result.success THEN << >>
                 ELSE << PathEntry(result.data, JStr(absolute(path))) >>

RECURSIVE appleEntries(_)
appleEntries(paths) ==
    IF paths = << >> THEN << >>
    ELSE appleEntry(Head(paths)) \o appleEntries(Tail(paths))

tryResolveAppleStrings(tree) ==
    appleEntries(inGlobOrder(globNamed(tree, { << "Localizable", "strings" >> })))

\* tryResolveAndroidStrings: path.split('/').at(-2) names the locale
androidEntry(path) ==
    LET segment == IF Len(path) >= 2 THEN joinDots(path[Len(path) - 1])
                   ELSE << Last(CwdString) >>
        result == LocaleDecoder(segment)
    IN  IF ~result.success THEN << >>
        ELSE << PathEntry(result.data, JStr(absolute(path))) >>

RECURSIVE androidEntries(_)
androidEntries(paths) ==
    IF paths = << >> THEN << >>
    ELSE androidEntry(Head(paths)) \o androidEntries(Tail(paths))

tryResolveAndroidStrings(tree) ==
    androidEntries(inGlobOrder(globNamed(tree, { << "strings", "xml" >> })))

\* tryLocaleFilePathsForVariant: the path lists it can return
tryLocaleFilePathsForVariant(fmt, tree) ==
    CASE fmt \in { "JSON", "YAML", "XCSTRINGS" } ->
           { << e >> : e \in tryFindSingularPath(fmt, tree) }
      [] fmt = "TS" -> { tryResolveTs(tree) }
      [] fmt \in { "XLIFF", "PO" } -> { << >> }
      [] fmt = "APPLE_STRINGS" -> { tryResolveAppleStrings(tree) }
      [] fmt = "ANDROID_STRINGS" -> { tryResolveAndroidStrings(tree) }

\* ProjectSetupDecoder.safeParse(value); data keeps the declared keys only
ProjectSetupDecoder(value) ==
    LET variant == getMember(value.kv, << "variant" >>)
        paths == getMember(value.kv, << "paths" >>)
        localeOf(i) == getMember(paths.kv[i][2].kv, << "locale" >>)
        pathOf(i) == getMember(paths.kv[i][2].kv, << "path" >>)
        success ==
            /\ value.t = "obj"
            /\ variant.t = "str"
            /\ variant.s \in { << v >> : v \in ProjectVariants }
            /\ paths.t = "arr"
            /\ Len(paths.kv) >= 1
            /\ \A i \in 1..Len(paths.kv) :
                 /\ paths.kv[i][2].t = "obj"
                 /\ localeOf(i).t = "str"
                 /\ localeOf(i).s \in Locales \cup { << "*" >> }
                 /\ pathOf(i).t = "str"
    IN  IF ~success THEN [ success |-> FALSE, data |-> JUndefined ]
        ELSE [ success |-> TRUE,
               data |-> ProjectSetup(variant.s[1],
                            [ i \in 1..Len(paths.kv) |->
                                PathEntry(localeOf(i).s, pathOf(i)) ]) ]

\* JSON.parse(rawContent)
parseJSON(rawContent) == parseLabelFile(rawContent)

\* getProjectSetup on the tree: Err without the file or when the decoder
\* rejects it; the promise rejects when the file is no JSON text
getProjectSetup(tree) ==
    IF ~hasProjectSetupFile(tree) THEN Err
    ELSE LET raw == parseJSON(tree[getProjectConfigFilePath])
             parseResult == ProjectSetupDecoder(raw.v)
         IN  IF ~raw.ok THEN Rejected
             ELSE IF ~parseResult.success THEN Err
             ELSE Ok(parseResult.data)

\* createProjectSetup(variant, paths): its result, and what it wrote
createProjectSetup(tree, variant, paths) ==
    IF hasProjectSetupFile(tree)
    THEN [ result |-> getProjectSetup(tree), wrote |-> FALSE, data |-> Empty ]
    ELSE IF Len(paths) = 0
    THEN [ result |-> Err, wrote |-> FALSE, data |-> Empty ]
    ELSE [ result |-> Ok(ProjectSetup(variant, paths)), wrote |-> TRUE,
           data |-> stringify(ProjectSetup(variant, paths)) ]

\* paths of the project layouts below
LabelsTs == << << "src" >>, << "labels", "ts" >> >>

AppleEn == << << "en", "lproj" >>, << "Localizable", "strings" >> >>

AppleBase == << << "Base", "lproj" >>, << "Localizable", "strings" >> >>

AndroidFr == << << "res" >>, << "fr" >>, << "strings", "xml" >> >>

AndroidValues == << << "res" >>, << "values" >>, << "strings", "xml" >> >>

\* the label files of the projects the setup functions run in
LabelLayouts ==
    { {}, { RootLabelsJson }, { RootLabelsJson, ModulesLabelsJson },
      { SrcLabelsYaml }, { LabelsTs }, { AppleEn, AppleBase },
      { AndroidFr, AndroidValues } }

\* the trees: every layout without a labeleer.json, and two of them with a
\* labeleer.json the decoder accepts, with one whose entry has no path,
\* and with one that is no JSON text
SetupTrees ==
    { [ p \in layout |-> JsonEmpty ] : layout \in LabelLayouts }
        \cup { [ p \in layout \cup { getProjectConfigFilePath } |->
                   IF p = getProjectConfigFilePath THEN text ELSE JsonEmpty ] :
                 layout \in { {}, { RootLabelsJson } },
                 text \in { stringify(ProjectSetup("JSON",
                               << PathEntry(<< "*" >>,
                                      JStr(absolute(RootLabelsJson))) >>)),
                           stringify(ProjectSetup("JSON",
                               << PathEntry(<< "*" >>, JUndefined) >>)),
                           YamlText } }

\* the `paths` arguments createProjectSetup is called with directly
DirectPaths ==
    { << >>,
      << PathEntry(<< "*" >>, JStr(absolute(RootLabelsJson))) >>,
      << PathEntry(<< "en_US" >>, JStr(absolute(AppleEn))),
         PathEntry(<< "fr_FR" >>, JStr(absolute(AndroidFr))) >> }

SetupInit ==
    /\ pc = "setupStart"
    /\ exitCode = -1
    /\ rootDir = << PackageJson >>
    /\ \E tree \in SetupTrees :
         /\ files = tree
         /\ initialFiles = tree
         /\ dispatchFiles = tree
    /\ dotEnvCandidates = << >>
    /\ dotEnvPath = Empty
    /\ envContent = << >>
    /\ parsedEnv = << >>
    /\ accessTokenCandidates = << >>
    /\ projectIdCandidates = << >>
    /\ partialConfig = NoConfig
    /\ labelCandidates = {}
    /\ config = NoProjectConfig
    /\ isNew = FALSE
    /\ configComplete = FALSE
    /\ action = ""
    /\ format = ""
    /\ inflight = NoRequest
    /\ response = NoResponse
    /\ locales = << >>
    /\ labelName = Empty
    /\ localeTranslations = << >>
    /\ cursor = 0
    /\ round = 0
    /\ prompts = << >>
    /\ answers = << >>
    /\ requests = << >>
    /\ writes = << >>
    /\ setup = NoResult
    /\ reloaded = NoResult

\* what the project-setup functions leave alone
setupFrame ==
    UNCHANGED << rootDir, initialFiles, credVars, labelVars, actionVars,
                 requests >>

\* where control goes when a setup function has settled with `result`
settled(result) == IF result.thrown THEN "setupRejected" ELSE "setupReturned"

\* createProjectSetup(variant, paths) is awaited
applyCreateProjectSetup(variant, paths) ==
    LET r == createProjectSetup(files, variant, paths)
    IN  /\ setup' = r.result
        /\ IF r.wrote
           THEN /\ files' = writeFile(files, getProjectConfigFilePath, r.data)
                /\ writes' = Append(writes, [ path |-> getProjectConfigFilePath,
                                              data |-> r.data ])
           ELSE UNCHANGED << files, writes >>
        /\ Goto(settled(r.result))

\* a caller invokes createProjectSetup with a variant and typed entries
callCreateProjectSetup ==
    /\ pc = "setupStart"
    /\ \E variant \in ProjectVariants, paths \in DirectPaths :
         applyCreateProjectSetup(variant, paths)
    /\ UNCHANGED << answers, reloaded >>
    /\ setupFrame

\* tryInquireProjectSetup up to its return or its first select
tryInquireProjectSetup ==
    /\ pc = "setupStart"
    /\ LET found == getProjectSetup(files)
       IN  IF found.thrown \/ found.success
           THEN setup' = found /\ Goto(settled(found))
           ELSE setup' = setup /\ Ask("selectCreateSetup")
    /\ UNCHANGED << files, writes, answers, reloaded >>
    /\ setupFrame

\* 'No project setup found. Would you like to create one?'
answerSelectCreateSetup ==
    /\ pc = "selectCreateSetup"
    /\ \E shouldCreateSetupFile \in BOOLEAN :
         /\ Answer(shouldCreateSetupFile)
         /\ IF ~shouldCreateSetupFile
            THEN setup' = Ok(JUndefined) /\ Goto("setupReturned")
            ELSE setup' = setup /\ Ask("selectVariant")
    /\ UNCHANGED << files, writes, reloaded >>
    /\ setupFrame

\* 'What kind of project would you like to create?', then
\* tryLocaleFilePathsForVariant and createProjectSetup
answerSelectVariant ==
    /\ pc = "selectVariant"
    /\ \E variant \in ProjectVariants :
         \E filePaths \in tryLocaleFilePathsForVariant(variant, files) :
             /\ Answer(variant)
             /\ applyCreateProjectSetup(variant, filePaths)
    /\ reloaded' = reloaded
    /\ setupFrame

\* the next invocation reads the setup: getProjectSetup()
readProjectSetup ==
    /\ pc = "setupReturned"
    /\ reloaded' = getProjectSetup(files)
    /\ Goto(settled(getProjectSetup(files)))
    /\ UNCHANGED << files, writes, answers, setup >>
    /\ setupFrame

SetupNext ==
    \/ callCreateProjectSetup
    \/ tryInquireProjectSetup
    \/ answerSelectCreateSetup
    \/ answerSelectVariant
    \/ readProjectSetup

SetupSpec == SetupInit /\ [][SetupNext]_vars

(***************************************************************************)
(* Properties                                                              *)
(***************************************************************************)
\* how often the prompt `kind` was shown
Shown(kind) == Cardinality({ i \in 1..Len(prompts) : prompts[i] = kind })

\* the positions of the answers given to the prompt `kind`
AnswersTo(kind) == { i \in 1..Len(answers) : answers[i].prompt = kind }

\* the methods of the requests sent so far
MethodsSent == { requests[i].method : i \in 1..Len(requests) }

\* an action other than cancel was picked
Dispatched == action \in { "retrieve", "publish", "create" }

\* control is inside a dispatched action
ActionPcs ==
    { "selectFetchFormat", "awaitExport", "awaitPublish", "awaitLocales",
      "inputLabelName", "inputTranslation", "selectAnother" }

\* every file but `path` is as it was in `before`, and no other file appeared
OthersAsIn(before, path) ==
    /\ DOMAIN files = (DOMAIN before) \cup { path }
    /\ \A p \in (DOMAIN before) \ { path } : files[p] = before[p]

\* C1 (as stated): whenever the action select is shown or an action has been
\* dispatched, projectId, accessToken and localFilePath of the config are
\* all non-empty, whichever way the credentials were resolved.
C1_ConfigNonEmptyAtDispatch ==
    (pc = "selectAction" \/ action # "") =>
        /\ Truthy(config.projectId)
        /\ Truthy(config.accessToken)
        /\ Truthy(config.localFilePath)

\* C2: when the label file was created during the run (isNew), publish is
\* never dispatched and no POST request is ever sent.
C2_NoPublishWhenNew ==
    isNew => action # "publish" /\ "POST" \notin MethodsSent

C2_Witness ==
    isNew /\ action = "retrieve" /\ "GET" \in MethodsSent /\ pc = "returned"

\* C3: after retrieve received a success response, the local label file holds
\* exactly the response body (its previous content is gone) and every other
\* file is untouched.
C3_RetrieveOverwritesVerbatim ==
    (action = "retrieve" /\ response.received /\ response.ok) =>
        /\ pc = "returned"
        /\ files[config.localFilePath] = response.data
        /\ OthersAsIn(dispatchFiles, config.localFilePath)

C3_Witness ==
    /\ action = "retrieve" /\ response.received /\ response.ok
    /\ dispatchFiles[config.localFilePath] = JsonGreeting
    /\ response.data = RemoteJson
    /\ files[config.localFilePath] = RemoteJson

\* C4: after retrieve received a non-success response, the process has exited
\* with status 1 and the files are as they were when retrieve was dispatched.
C4_RetrieveFailureIsFatal ==
    (action = "retrieve" /\ response.received /\ ~response.ok) =>
        /\ pc = "exited"
        /\ exitCode = 1
        /\ files = dispatchFiles

C4_Witness ==
    /\ action = "retrieve" /\ response.received /\ ~response.ok
    /\ response.data # EmptyText
    /\ pc = "exited"

\* C5: publish on a label file whose inferred format is not json sends no
\* POST, leaves the files unchanged and returns instead of exiting.
C5_PublishRefusesNonJson ==
    (action = "publish"
       /\ inferFileFormatFromFileName(config.localFilePath) # "json") =>
        /\ "POST" \notin MethodsSent
        /\ files = dispatchFiles
        /\ pc = "returned"
        /\ exitCode = 0

C5_Witness ==
    /\ action = "publish"
    /\ config.localFilePath = SrcLabelsYaml
    /\ files[SrcLabelsYaml] = YamlText
    /\ pc = "returned"

C7_DeclineExitsWithoutFile ==
    \A i \in AnswersTo("confirmCreate") :
        answers[i].value = FALSE =>
            /\ labelCandidates = {}
            /\ pc = "exited"
            /\ exitCode = 0
            /\ writes = << >>
            /\ files = initialFiles

C7_Witness ==
    /\ \E i \in AnswersTo("confirmCreate") : answers[i].value = FALSE
    /\ pc = "exited"

\* C8: with no label-file candidate, accepting the offer and picking a format
\* creates exactly one file, labels.<extension of the format> in the working
\* directory, empty, and the resolver returns that path with isNew = TRUE.
C8_CreatesOneEmptyFile ==
    \A i \in AnswersTo("selectCreateFormat") :
        LET path == << << "labels",
                          getFileExtensionFromFormat(answers[i].value) >> >>
        IN  /\ labelCandidates = {}
            /\ isNew
            /\ configComplete
            /\ config.localFilePath = path
            /\ path \notin DOMAIN initialFiles
            /\ OthersAsIn(initialFiles, path)
            /\ writes # << >>
            /\ writes[1] = [ path |-> path, data |-> EmptyText ]
            /\ pc = "selectAction" =>
                 Len(writes) = 1 /\ files[path] = EmptyText

C8_Witness ==
    /\ \E i \in AnswersTo("selectCreateFormat") : answers[i].value = "YAML"
    /\ pc = "selectAction"
    /\ config.localFilePath = << << "labels", "yaml" >> >>

C10_EnvFileChoice ==
    pc # "start" =>
        LET n == Len(dotEnvCandidates)
            picked == AnswersTo("selectEnv")
        IN  /\ n = 0 =>
                 /\ Shown("selectEnv") = 0
                 /\ parsedEnv = << >>
                 /\ prompts # << >> /\ prompts[1] = "password"
            /\ n = 1 =>
                 /\ Shown("selectEnv") = 0
                 /\ dotEnvPath = dotEnvCandidates[1]
                 /\ parsedEnv = IF pc = "readEnv" THEN << >>
                                ELSE << dotEnvCandidates[1] >>
            /\ n > 1 =>
                 /\ Shown("selectEnv") = 1
                 /\ prompts[1] = "selectEnv"
                 /\ Cardinality(picked) <= 1
                 /\ picked = {} => parsedEnv = << >>
                 /\ \A i \in picked :
                      /\ answers[i].value \in Range(dotEnvCandidates)
                      /\ dotEnvPath = answers[i].value
                      /\ parsedEnv = IF pc = "readEnv" THEN << >>
                                     ELSE << answers[i].value >>

C10_Witness ==
    /\ Len(dotEnvCandidates) = 2
    /\ Shown("selectEnv") = 1
    /\ parsedEnv = << DotEnvLocal >>
    /\ pc = "selectAction"

\* C11: after an env file was read: one token and one project id are
\* returned without a prompt; with no token or no project id the resolver
\* falls back to the password and project-id prompts; otherwise (both lists
\* non-empty, one of them longer than one) one token select and one
\* project-id select are shown and the result's fields are members of the
\* respective candidate lists.
C11_EnvParseOutcome ==
    (parsedEnv # << >> /\ pc # "readEnv") =>
        LET nt == Len(accessTokenCandidates)
            ni == Len(projectIdCandidates)
            resolved == pc \notin CredentialPcs /\ partialConfig.defined
        IN  /\ (nt = 1 /\ ni = 1) =>
                 /\ Shown("selectAccessToken") = 0
                 /\ Shown("selectProjectId") = 0
                 /\ Shown("password") = 0
                 /\ Shown("inputProjectId") = 0
                 /\ partialConfig = PartialConfig(projectIdCandidates[1],
                                                  accessTokenCandidates[1])
            /\ (nt = 0 \/ ni = 0) =>
                 /\ Shown("selectAccessToken") = 0
                 /\ Shown("selectProjectId") = 0
                 /\ Shown("password") = 1
                 /\ resolved => Shown("inputProjectId") = 1
            /\ (nt >= 1 /\ ni >= 1 /\ nt + ni > 2) =>
                 /\ Shown("selectAccessToken") = 1
                 /\ Shown("password") = 0
                 /\ Shown("inputProjectId") = 0
                 /\ resolved =>
                      /\ Shown("selectProjectId") = 1
                      /\ partialConfig.accessToken
                           \in Range(accessTokenCandidates)
                      /\ partialConfig.projectId \in Range(projectIdCandidates)

C11_Witness ==
    /\ envContent = EnvTwoTokens
    /\ pc = "selectAction"
    /\ config.accessToken = << "tokB" >>
    /\ config.projectId = << "idA" >>
    /\ Shown("selectProjectId") = 1

\* the values a line of the form LABELEER<key>=V or LABELEER<key>=qVq, with
\* q a quote and V token-safe, assigns in the file that was read
AssignedValues(key) ==
    { << v >> : v \in { w \in TokenSafe :
        \E i \in 1..Len(envContent), name \in { << "_ACCESS_", key >>,
                                                << "_", key >> },
           q \in { << >>, << "DQ" >>, << "SQ" >> } :
             envContent[i] = LineToken(name, q, w, q) } }

\* C12 (as stated): a line LABELEER_ACCESS_TOKEN=V or LABELEER_PROJECT_ID=V
\* with a token-safe V is recognized as a candidate both unquoted and in one
\* layer of matching quotes, and the candidate is V without the quotes.
C12_UnquotedAndQuotedRecognized ==
    (parsedEnv # << >> /\ pc # "readEnv") =>
        /\ AssignedValues("TOKEN") \subseteq Range(accessTokenCandidates)
        /\ AssignedValues("PROJECT_ID") \subseteq Range(projectIdCandidates)

\* ^[a-zA-Z0-9._-]+$ on a sequence of atoms
WellFormedName(name) ==
    /\ name # Empty
    /\ \A k \in 1..Len(name) : name[k] \notin Disallowed

\* C13 (as stated): every label name the name prompt accepted matches
\* ^[a-zA-Z0-9._-]+$; in particular it is non-empty and has no white space,
\* and "foo bar" is not among the accepted names.
C13_AcceptedNamesWellFormed ==
    \A i \in AnswersTo("inputLabelName") :
        /\ WellFormedName(answers[i].value)
        /\ answers[i].value # << "foo", " ", "bar" >>

\* the locales of this round that got a non-empty translation
NonBlank ==
    { i \in 1..Len(localeTranslations) : Truthy(localeTranslations[i][2]) }

\* C14 (as stated): when no locale got a non-empty translation the create
\* flow aborts without writing; so whenever it has just written the label
\* file (control is at 'create another one?'), some translation is non-empty.
C14_AllBlankAbortsWithoutWrite ==
    pc = "selectAnother" => NonBlank # {}

\* the label file as it is on disk, parsed
SavedFile == parseLabelFile(files[config.localFilePath]).v

\* the translations object of the label `name` in the parsed file `file`
TranslationsOf(file, name) ==
    getMember(getMember(file.kv, name).kv, << "translations" >>)

\* the label of this round was not in the file when create was dispatched
LabelIsNew ==
    /\ round = 1
    /\ parseLabelFile(dispatchFiles[config.localFilePath]).ok
    /\ getMember(parseLabelFile(dispatchFiles[config.localFilePath]).v.kv,
                 labelName).t = "undefined"

\* C15 (as stated): after a save, a locale whose translation was left blank
\* has no key under the new label; from {} with en = "Hi" and fr blank the
\* saved file is {"greeting":{"translations":{"en":"Hi"}}}.
C15_BlankLocaleGetsNoKey ==
    (pc = "selectAnother" /\ LabelIsNew) =>
        /\ \A i \in 1..Len(localeTranslations) :
             ~Truthy(localeTranslations[i][2]) =>
                 getMember(TranslationsOf(SavedFile, labelName).kv,
                           localeTranslations[i][1]).t = "undefined"
        /\ (/\ dispatchFiles[config.localFilePath] = JsonEmpty
            /\ labelName = << "greeting" >>
            /\ localeTranslations = << << << "en" >>, << "Hi" >> >>,
                                       << << "fr" >>, Empty >> >>) =>
               files[config.localFilePath] =
                   stringify(JObj(<< << << "greeting" >>,
                       LabelEntry(<< << << "en" >>,
                                        JStr(<< "Hi" >>) >> >>) >> >>))

\* C16: the translation prompt of a locale refuses a blank answer exactly
\* when the locale's isReference is true: the prompt control waits at takes
\* a blank iff its locale is no reference locale, and among the answers
\* taken in this round every reference locale has a non-empty value.
C16_RequiredIffReference ==
    /\ pc = "inputTranslation" =>
         (inputAccepts(required(locales[cursor]), Empty)
            <=> ~locales[cursor].isReference)
    /\ pc \in { "inputTranslation", "selectAnother" } =>
         \A k \in 1..Len(localeTranslations) :
             /\ localeTranslations[k][1] = locales[k].locale
             /\ locales[k].isReference => Truthy(localeTranslations[k][2])

C16_Witness ==
    /\ pc = "selectAnother"
    /\ locales = << LocaleEntry(<< "en" >>, TRUE),
                    LocaleEntry(<< "fr" >>, FALSE) >>
    /\ localeTranslations = << << << "en" >>, << "Hi" >> >>,
                               << << "fr" >>, Empty >> >>

\* the keys of the members of an object
Keys(members) == { members[i][1] : i \in 1..Len(members) }

\* C17: a save of the create flow changes only the target label's entries
\* for the incoming locales: every other label of the file has the same
\* value before and after, no other label appears, every other locale key of
\* the target label keeps its value, and no other file changes.
C17_SaveChangesOnlyIncoming ==
    [][(pc = "inputTranslation" /\ pc' = "selectAnother") =>
         LET path == config.localFilePath
             before == parseLabelFile(files[path]).v
             after == parseLabelFile(files'[path]).v
             incoming == Keys(localeTranslations')
             tb == TranslationsOf(before, labelName)
             ta == TranslationsOf(after, labelName)
         IN  /\ parseLabelFile(files'[path]).ok
             /\ Keys(after.kv) = Keys(before.kv) \cup { labelName }
             /\ \A k \in Keys(before.kv) \ { labelName } :
                  getMember(after.kv, k) = getMember(before.kv, k)
             /\ \A l \in Keys(tb.kv) \ incoming :
                  getMember(ta.kv, l) = getMember(tb.kv, l)
             /\ DOMAIN files' = DOMAIN files
             /\ \A p \in DOMAIN files \ { path } : files'[p] = files[p]
      ]_vars

C17_Witness ==
    /\ pc = "selectAnother"
    /\ round = 2
    /\ labelName = << "greeting" >>
    /\ dispatchFiles[config.localFilePath] = JsonGreeting
    /\ Keys(SavedFile.kv) = { << "greeting" >>, << "foo", ".", "bar" >> }
    /\ getMember(TranslationsOf(SavedFile, labelName).kv, << "de" >>)
         = JStr(<< "Alt" >>)
    /\ getMember(TranslationsOf(SavedFile, labelName).kv, << "en" >>)
         = JStr(<< "Hi" >>)

\* the text is a label file: an object whose members all have a
\* translations object holding strings
IsLabelFile(text) ==
    LET r == parseLabelFile(text)
    IN  /\ r.ok
        /\ r.v.t = "obj"
        /\ \A k \in Keys(r.v.kv) :
             LET tr == TranslationsOf(r.v, k)
             IN  /\ tr.t = "obj"
                 /\ \A l \in Keys(tr.kv) : getMember(tr.kv, l).t = "str"

\* C18 (as stated): for every label name and translations map, once the last
\* translation is entered the label is upserted and saved, and loading the
\* file again returns, for that label, exactly the value passed in for
\* every locale of the map.
C18_UpsertThenLoadRoundTrips ==
    [][(/\ pc = "inputTranslation"
        /\ cursor = Len(locales)
        /\ answers' # answers
        /\ IsLabelFile(files[config.localFilePath])) =>
         LET loaded == parseLabelFile(files'[config.localFilePath])
             tr == TranslationsOf(loaded.v, labelName)
         IN  /\ loaded.ok
             /\ \A i \in 1..Len(localeTranslations') :
                  getMember(tr.kv, localeTranslations'[i][1])
                    = JStr(localeTranslations'[i][2])
      ]_vars

\* the locale fetch of the current round was answered with `ok`
LocalesAnswered(ok) ==
    /\ action = "create"
    /\ pc # "awaitLocales"
    /\ response.received
    /\ response.ok = ok

\* C19 (as stated): when the locale fetch of the create flow failed or
\* returned an empty list, the process is not terminated with status 1 and
\* the label file is not modified.
C19_LocaleFailureAbortsActionOnly ==
    (LocalesAnswered(FALSE) \/ (LocalesAnswered(TRUE) /\ locales = << >>)) =>
        /\ exitCode # 1
        /\ round = 1 => files = dispatchFiles

\* the process ended while a prompt was waiting for its answer
EndedAtPrompt == pc = "exited" /\ Len(answers) < Len(prompts)

\* C20: when the user interrupts a prompt, whichever it is, the process
\* exits with status 0 and never with status 1, and nothing is written or
\* sent by the interrupt.
C20_InterruptExitsZero ==
    EndedAtPrompt =>
        /\ exitCode = 0
        /\ Last(prompts) \in PromptPcs
        /\ inflight = NoRequest

C20_Witness ==
    /\ EndedAtPrompt
    /\ Last(prompts) = "inputTranslation"
    /\ cursor = 2
    /\ exitCode = 0

\* a segment of the path above the file name is on the deny list
InsideDenyListed(path) ==
    \E i \in 1..(Len(path) - 1) : path[i] \in globIgnorePatterns

\* C21 (as stated): label-file discovery returns no path that lies inside a
\* deny-listed directory, at any depth and including files nested below
\* such a directory.
C21_NoCandidateInsideDenyListed ==
    \A p \in labelCandidates : ~InsideDenyListed(p)

\* the file name is ".env" or starts with ".env."
IsDotEnvName(fileName) ==
    Len(fileName) >= 2 /\ fileName[1] = "" /\ fileName[2] = "env"

\* C22 (as stated): every env-file candidate is a file of the project root
\* whose name is exactly ".env" or starts with ".env."; a name that merely
\* ends in ".env" is not a candidate.
C22_CandidatesAreDotEnvNames ==
    \A i \in 1..Len(dotEnvCandidates) :
        /\ dotEnvCandidates[i] \in Range(rootDir)
        /\ IsDotEnvName(dotEnvCandidates[i])

\* the atoms of the access token the run settled on
TokenAtoms == Range(partialConfig.accessToken)

\* C23 (as stated): the access token is never written to a file and never
\* appears in what the tool prints to the terminal, prompt choices
\* included; it is only sent as the Authorization header of the requests.
C23_TokenOnlyInAuthorizationHeader ==
    Truthy(partialConfig.accessToken) =>
        /\ \A i \in 1..Len(prompts) :
             partialConfig.accessToken \notin selectChoices(prompts[i])
        /\ \A i \in 1..Len(writes) :
             TokenAtoms \cap Range(writes[i].data) = {}
        /\ \A i \in 1..Len(requests) :
             /\ requests[i].token = partialConfig.accessToken
             /\ TokenAtoms \cap Range(requests[i].body) = {}

\* the env file was parsed and did not yield both a token and a project id
ParseFailed ==
    /\ Len(parsedEnv) >= 1
    /\ (accessTokenCandidates = << >> \/ projectIdCandidates = << >>)

\* C25: the credential resolver never loops: at most one env-file select,
\* at most one parse of an env file and at most one interactive fallback
\* happen in a run; after a failed parse the next prompt is the fallback's
\* password prompt, and no env-file select follows a parse or a fallback.
C25_ResolverNeverLoops ==
    /\ Shown("selectEnv") <= 1
    /\ Len(parsedEnv) <= 1
    /\ Shown("password") <= 1
    /\ Shown("inputProjectId") <= 1
    /\ ParseFailed =>
         /\ Len(prompts) >= Shown("selectEnv") + 1
         /\ prompts[Shown("selectEnv") + 1] = "password"
    /\ \A i \in 1..Len(prompts) :
         prompts[i] = "selectEnv" => i = 1 /\ (Len(parsedEnv) = 1 => pc # "selectEnv")

C25_Witness ==
    /\ ParseFailed
    /\ Shown("selectEnv") = 1
    /\ parsedEnv = << DotEnvLocal >>
    /\ envContent = EnvTokenOnly
    /\ pc = "selectAction"
    /\ Shown("password") = 1

\* C26 (as stated): in each iteration of the create-label flow the locale
\* list is fetched and checked before the user is asked anything: when the
\* list is empty or the fetch failed, the label-name prompt is not issued
\* in that iteration.
C26_NoNamePromptWithoutLocales ==
    (LocalesAnswered(FALSE) \/ (LocalesAnswered(TRUE) /\ locales = << >>)) =>
        Shown("inputLabelName") < round

\* C27 (as stated): when the label file is not valid JSON, or is JSON that
\* does not have the LabelFile shape, the create-label flow fails at load
\* and leaves the file unchanged: no write happens on a malformed file.
C27_MalformedFileNeverWritten ==
    (action = "create" /\ ~IsLabelFile(dispatchFiles[config.localFilePath])) =>
        /\ files = dispatchFiles
        /\ pc # "selectAnother"

\* C28: when the publish POST is answered with a non-success response the
\* action returns without ending the process through an exit and without
\* modifying the local label file; no outcome of the publish action writes
\* a file.
C28_PublishNeverWrites ==
    action = "publish" =>
        /\ files = dispatchFiles
        /\ writes = << >>
        /\ (response.received /\ ~response.ok) =>
             /\ pc = "returned"
             /\ exitCode = 0

C28_Witness ==
    /\ action = "publish"
    /\ Len(requests) = 1
    /\ requests[1].method = "POST"
    /\ response.received
    /\ ~response.ok
    /\ pc = "returned"
    /\ files = dispatchFiles

\* every locale of the current round has been answered, so the save of
\* tryCreateLabel has been attempted
AllAnswered ==
    /\ Len(locales) >= 1
    /\ Len(localeTranslations) = Len(locales)

\* C29 (as stated): after the resolver created a new empty label file and
\* the user chose Create New Label, with a non-empty locale list, a valid
\* name and at least one non-empty translation, the flow completes and the
\* label file holds the new label; the run does not end with status 1.
C29_CreateOnNewFileCompletes ==
    (/\ isNew
     /\ action = "create"
     /\ AllAnswered
     /\ WellFormedName(labelName)
     /\ NonBlank # {}) =>
        /\ exitCode # 1
        /\ parseLabelFile(files[config.localFilePath]).ok
        /\ getMember(SavedFile.kv, labelName).t = "obj"

\* the labeleer.json texts createProjectSetup wrote in this run
WrittenSetups ==
    { writes[i].data : i \in { j \in 1..Len(writes) :
                               writes[j].path = getProjectConfigFilePath } }

\* C30 (as stated): every labeleer.json written by createProjectSetup,
\* called directly or through tryInquireProjectSetup, for any format and
\* any layout, is accepted by the decoder, and the following
\* getProjectSetup returns Ok with the same variant and paths.
C30_WrittenSetupLoadsBack ==
    /\ \A text \in WrittenSetups :
         /\ parseJSON(text).ok
         /\ ProjectSetupDecoder(parseJSON(text).v).success
    /\ (reloaded.called /\ WrittenSetups # {}) =>
         /\ reloaded.success
         /\ setup.success
         /\ reloaded.value = setup.value

====
